---- MODULE Spec2Model ----
(***************************************************************************)
(* The PCU motion control: the sequencer (pcu_sequencer/sequencer.py), the *)
(* collision guardian (pcu_sequencer/collisionIOC.py), the position and    *)
(* move values (pcu_sequencer/positions.py) and the motor facade           *)
(* (pcu_sequencer/motors.py), as two tick-driven state machines that share *)
(* the motors and the channel fabric.                                      *)
(*                                                                         *)
(* One tick of a machine is one action.  A tick is a composition of steps  *)
(* on a record w (the "world" the handler sees and changes): the machine's *)
(* own fields, the motors, the channels, the commands issued so far and    *)
(* exc, the exception in flight ("none", "disc" for PVDisconnectException, *)
(* "err" for any other Python exception, which no handler catches and      *)
(* which ends the tick where it is raised).                                *)
(*                                                                         *)
(* Not in the repository's files and modelled from the specification:      *)
(* the two YAML tables (geometry, named configurations), the kPySequencer  *)
(* base class (request channel, to_<STATE>, stop) and the facade methods   *)
(* the machines call but motors.py does not define (get_commanded,         *)
(* reset_pos, home, isMoving).  The facade's enable/disable and            *)
(* PCUPos.motor_in_position are modelled by what their bodies are written  *)
(* to do (software enable channel; position within tolerance).             *)
(***************************************************************************)
EXTENDS Integers, Sequences, FiniteSets, TLC

(***************************************************************************)
(* The state.                                                              *)
(*   mot   the four motors: pos (posvalRb), cmd (posval), en (software     *)
(*         enable), go (motion released: set by go, cleared by a stop),    *)
(*         hom (homing in progress, what isMoving reports)                 *)
(*   chan  the channels: request, pos, the per-axis Pos and Offset         *)
(*         channels (None is RESET_VAL), stst, collisions:request and      *)
(*         collisions:stst                                                  *)
(*   seq   the PCUSequencer object                                         *)
(*   col   the collisionSequencer object                                   *)
(*   env   what the machines do not control: conn (the motor endpoints     *)
(*         answer), lib (what PV.put(None) does: the call is "ignored" or  *)
(*         "raises"), store and mask_center (the configuration files the   *)
(*         deployment holds), writes (client writes so far)                *)
(*   sLast, gLast  what the last tick of each machine did (history)        *)
(***************************************************************************)
VARIABLES mot, chan, seq, col, env, sLast, gLast

vars == <<mot, chan, seq, col, env, sLast, gLast>>

(***************************************************************************)
(* Configuration tables (motor_configurations.yaml, PCU_configurations.yaml)*)
(***************************************************************************)
valid_motors == <<"m1", "m2", "m3", "m4">>
Motors == {valid_motors[i] : i \in 1..Len(valid_motors)}

fiber_center == [m1 |-> 100, m2 |-> 50]
\* the mask centre of the deployed motor file (MaskCenters below)
mask_center == env.mask_center
safe_radius == [fiber |-> 20, mask |-> 20]
motor_limits == [m1 |-> <<0, 300>>, m2 |-> <<0, 100>>, m3 |-> <<0, 20>>, m4 |-> <<0, 20>>]
tolerance == [m \in Motors |-> 1]

\* collisionIOC.py: the true radius of the k-mirror rotator
KMIRR_RADIUS == 50

\* the mask centres a motor file can hold: the two apertures apart (the
\* centres 2 * KMIRR_RADIUS from each other), and overlapping
MaskCenters == {[m1 |-> 200, m2 |-> 50], [m1 |-> 160, m2 |-> 50]}

Pos(a, b, c, d) == [m1 |-> a, m2 |-> b, m3 |-> c, m4 |-> d]

base_configs == [telescope |-> Pos(10, 10, 0, 0)]
fiber_configs == [fiber_center |-> Pos(100, 50, 0, 5), fiber_center2 |-> Pos(119, 50, 0, 5)]
mask_configs == [mask_center |-> Pos(200, 50, 5, 0)]
\* dict(base, **fiber, **mask): insertion order base, fiber, mask
config_order == <<"telescope", "fiber_center", "fiber_center2", "mask_center">>
all_configs == base_configs @@ fiber_configs @@ mask_configs
user_configs == fiber_configs @@ mask_configs
ConfigNames == DOMAIN all_configs

\* the configuration files a deployment can hold: the tables above, the same
\* with an invalid base entry (mask extended outside the mask safe circle),
\* the same with an invalid fiber entry (fiber extended outside the fiber
\* safe circle), and the same with the axes of one entry written in another
\* order
StoreNames == {"ok", "bad_base", "bad_user", "reordered"}
StoreAll(store) ==
  IF store = "bad_base" THEN [all_configs EXCEPT !["telescope"] = Pos(10, 10, 5, 0)]
  ELSE IF store = "bad_user" THEN [all_configs EXCEPT !["fiber_center2"] = Pos(130, 50, 0, 5)]
  ELSE all_configs
StoreUser(store) == [c \in DOMAIN user_configs |-> StoreAll(store)[c]]
\* the order in which each entry of the file lists its axes
StoreAxes(store) ==
  [c \in ConfigNames |->
     IF store = "reordered" /\ c = "fiber_center2" THEN <<"m2", "m1", "m3", "m4">>
     ELSE valid_motors]

(***************************************************************************)
(* positions.py: PCUPos and PCUMove.  A position maps every valid motor to *)
(* a number.  A move maps every valid motor to <<>> (None, unset) or <<v>> *)
(* and carries its type.  The homing sequence queues plain dicts, not      *)
(* PCUMove objects: kind tells them apart and h holds the dict's keys.     *)
(***************************************************************************)
None == <<>>
Some(v) == <<v>>
NoAxes == [m \in Motors |-> None]

PCUMove(move_type, pos_dict) ==
  [kind |-> "PCUMove", type |-> move_type,
   mdict |-> [m \in Motors |-> IF m \in DOMAIN pos_dict THEN Some(pos_dict[m]) ELSE None],
   h |-> {}]

HomeDict(axes) == [kind |-> "dict", type |-> "home", mdict |-> NoAxes, h |-> axes]

\* PCUPos.__add__
PosAdd(p, mv) ==
  [m \in Motors |->
     IF mv.mdict[m] = None THEN p[m]
     ELSE IF mv.type = "relative" THEN p[m] + mv.mdict[m][1]
     ELSE mv.mdict[m][1]]

\* PCUPos.__sub__ (self + (-other)), on the numbers
PosSub(p, q) == [m \in Motors |-> p[m] - q[m]]

is_between(p, m, limits) == p[m] >= limits[1] /\ p[m] <= limits[2]

in_limits(p, limits) == \A m \in Motors : is_between(p, m, limits[m])

in_circle(p, center, radius) ==
  (p.m1 - center.m1) * (p.m1 - center.m1) + (p.m2 - center.m2) * (p.m2 - center.m2)
     < radius * radius

in_hole(p, instrument) ==
  IF instrument = "fiber" THEN in_circle(p, fiber_center, safe_radius.fiber)
  ELSE in_circle(p, mask_center, safe_radius.mask)

in_hole_rad(p, instrument, check_rad) ==
  IF instrument = "fiber" THEN in_circle(p, fiber_center, check_rad)
  ELSE in_circle(p, mask_center, check_rad)

fiber_extended(p) == p.m4 > 0
mask_extended(p) == p.m3 > 0

is_valid(p) ==
  /\ (p.m3 > 0 => in_hole(p, "mask"))
  /\ (p.m4 > 0 => in_hole(p, "fiber"))
  /\ in_limits(p, motor_limits)

move_in_hole_mask_only(p, q) ==
  /\ is_valid(p) /\ is_valid(q)
  /\ in_hole(p, "mask") /\ in_hole(q, "mask")

move_in_hole(p, q) ==
  /\ is_valid(p) /\ is_valid(q)
  /\ \/ in_hole(p, "mask") /\ in_hole(q, "mask")
     \/ in_hole(p, "fiber") /\ in_hole(q, "fiber")

motor_in_position(p, m, dest) == is_between(p, m, <<dest - tolerance[m], dest + tolerance[m]>>)

\* PCUMove.__bool__: true as soon as the dict holds a key that is not None,
\* and the keys are the motor names
MoveBool(mv) == \E m \in DOMAIN mv.mdict : m # "None"

\* PCUMove.xy / PCUMove.z
MoveXY(mv) == [mv EXCEPT !.mdict = [m \in Motors |-> IF m \in {"m1", "m2"} THEN mv.mdict[m] ELSE None]]
MoveZ(mv) == [mv EXCEPT !.mdict = [m \in Motors |-> IF m \in {"m3", "m4"} THEN mv.mdict[m] ELSE None]]

\* PCUSequencer.home_Z
home_Z == PCUMove("absolute", [m3 |-> 0, m4 |-> 0])

\* sequencer.py
MOVE_TIME == 45
HOME_TIME == 360

(***************************************************************************)
(* Steps of a tick, on the world record w.  Every step leaves w alone when *)
(* an exception is in flight.                                              *)
(***************************************************************************)
Raise(w, e) == [w EXCEPT !.exc = e]
Log(w, op, m, v) == [w EXCEPT !.log = Append(@, <<op, m, v>>)]
To(w, st) == IF w.exc # "none" THEN w ELSE [w EXCEPT !.s.state = st]
All4(w, Op(_, _)) ==
  Op(Op(Op(Op(w, valid_motors[1]), valid_motors[2]), valid_motors[3]), valid_motors[4])

(***************************************************************************)
(* motors.py: PCUMotor                                                     *)
(***************************************************************************)
check_connection(w) == IF w.exc # "none" \/ w.conn THEN w ELSE Raise(w, "disc")

\* (not self.enableRb.get()): a PV that does not answer reads None
isEnabled(w, m) == IF w.conn THEN w.mot.en[m] ELSE TRUE

MotorEnable(w, m) ==
  LET c == check_connection(w)
  IN IF c.exc # "none" THEN c ELSE Log([c EXCEPT !.mot.en[m] = TRUE], "enable", m, None)

MotorDisable(w, m) ==
  LET c == check_connection(w)
  IN IF c.exc # "none" THEN c ELSE Log([c EXCEPT !.mot.en[m] = FALSE], "disable", m, None)

\* set_chan.put(pos); go_chan.put(1)
set_pos(w, m, v) ==
  LET c == check_connection(w)
  IN IF c.exc # "none" THEN c
     ELSE IF v = None
       THEN IF c.lib = "raises" THEN Raise(Log(c, "set_pos", m, v), "err")
            ELSE Log([c EXCEPT !.mot.go[m] = TRUE], "set_pos", m, v)
     ELSE Log([c EXCEPT !.mot.cmd[m] = v[1], !.mot.go[m] = TRUE], "set_pos", m, v)

\* spmg.put('Stop'): no connection check
MotorStop(w, m) ==
  IF w.exc # "none" THEN w
  ELSE Log([w EXCEPT !.mot.go[m] = FALSE, !.mot.hom[m] = FALSE], "stop", m, None)

\* the facade's home(): the axis starts homing, or fails to start (starts)
MotorHome(w, m, starts) ==
  LET c == check_connection(w)
  IN IF c.exc # "none" THEN c
     ELSE Log([c EXCEPT !.mot.hom[m] = (m \in starts)], "home", m, None)

isMoving(w, m) == w.mot.hom[m]

\* the facade's reset_pos(): the commanded value becomes the current position
reset_pos(w, m) ==
  LET c == check_connection(w)
  IN IF c.exc # "none" THEN c ELSE Log([c EXCEPT !.mot.cmd[m] = c.mot.pos[m]], "reset_pos", m, None)

go_put(w, m) == IF w.exc # "none" THEN w ELSE [w EXCEPT !.mot.go[m] = TRUE]

(***************************************************************************)
(* sequencer.py: PCUSequencer.  In these steps w.s is the sequencer.       *)
(***************************************************************************)
\* current_pos() reads every motor through get_pos, which checks the connection
current_pos(w) == w.mot.pos

stop_motors(w) ==
  IF w.exc # "none" THEN w
  ELSE All4([w EXCEPT !.s.current_move = None, !.s.motor_moves = <<>>,
                      !.s.configuration = "", !.s.destination = ""], MotorStop)

enable_all(w) == All4(w, MotorEnable)
disable_all(w) == All4(w, MotorDisable)

\* the per-axis absolute moves, in the order of the position's own dictionary,
\* which PCUPos.__init__ builds in the order of valid_motors
ConfigMoves(dest) ==
  [i \in 1..Len(valid_motors) |->
     PCUMove("absolute", [m \in {valid_motors[i]} |-> dest[m]])]

load_config(w, destination) ==
  IF w.exc # "none" THEN w
  ELSE LET motor_posvals == StoreAll(w.store)[destination]
           c == check_connection([w EXCEPT !.s.motor_moves = <<>>])
           cur_pos == current_pos(c)
       IN IF c.exc # "none" THEN c
          ELSE [c EXCEPT !.s.motor_moves =
                   (IF ~move_in_hole(cur_pos, motor_posvals) THEN <<home_Z>> ELSE <<>>)
                      \o ConfigMoves(motor_posvals),
                 !.s.configuration = "",
                 !.s.destination = destination,
                 !.loaded = TRUE]

\* the homing branch of trigger_move, for one key of the queued dict
HomeOne(w, mv, starts, m) ==
  IF w.exc # "none" \/ w.ret = FALSE \/ m \notin mv.h THEN w
  ELSE LET h == MotorHome(MotorEnable(w, m), m, starts)
       IN IF h.exc # "none" THEN h
          ELSE IF ~isMoving(h, m) THEN [To(h, "FAULT") EXCEPT !.ret = FALSE]
          ELSE h

\* the regular branch of trigger_move, for one motor of move.mdict
TrigOne(w, mv, m) ==
  IF w.exc # "none" THEN w
  ELSE set_pos(IF ~isEnabled(w, m) THEN To(stop_motors(w), "FAULT") ELSE w, m, mv.mdict[m])

trigger_move(w0, mv, starts) ==
  IF w0.exc # "none" THEN w0
  ELSE LET w == [w0 EXCEPT !.trig = Some(mv)] IN
  IF w.s.homing
    THEN \* move.items(): PCUMove.items calls itself without end
         IF mv.kind # "dict" THEN Raise(w, "err")
         ELSE LET l2 == HomeOne(HomeOne([w EXCEPT !.ret = TRUE], mv, starts, "m3"), mv, starts, "m4")
                  l4 == HomeOne(HomeOne(l2, mv, starts, "m1"), mv, starts, "m2")
              IN IF l4.exc # "none" \/ l4.ret = FALSE THEN l4
                 ELSE [l4 EXCEPT !.s.current_move = Some(mv),
                                 !.s.move_timer = [secs |-> HOME_TIME, expired |-> FALSE]]
    ELSE \* current_pos() + move: a dict is no PCUMove
         IF mv.kind = "dict" THEN Raise(check_connection(w), IF w.conn THEN "err" ELSE "disc")
         \* an invalid dest_pos is reported with critical() and nothing else: no
         \* return, the loop over the axes follows
         ELSE LET c == check_connection(w)
                  l == All4([c EXCEPT !.ret = TRUE], LAMBDA u, m : TrigOne(u, mv, m))
              IN IF l.exc # "none" \/ l.ret = FALSE THEN l
                 ELSE [l EXCEPT !.s.current_move = Some(mv),
                                !.s.move_timer = [secs |-> MOVE_TIME, expired |-> FALSE]]

\* move_complete: w.ret is what it returns
RECURSIVE CompleteLoop(_, _, _)
CompleteLoop(w, mv, i) ==
  IF i > Len(valid_motors)
    THEN [w EXCEPT !.s.current_move = None, !.ret = TRUE]
  ELSE LET m == valid_motors[i]
       IN IF w.s.homing /\ isMoving(w, m) THEN [w EXCEPT !.ret = FALSE]
          \* motor_in_position(m_name, None): pos-t on None is a TypeError
          ELSE IF mv.mdict[m] = None THEN Raise(w, "err")
          ELSE IF ~motor_in_position(current_pos(w), m, mv.mdict[m][1]) THEN [w EXCEPT !.ret = FALSE]
          ELSE CompleteLoop(w, mv, i + 1)

move_complete(w) ==
  IF w.exc # "none" THEN w
  ELSE IF w.s.current_move = None THEN [w EXCEPT !.ret = TRUE]
  ELSE LET c == check_connection(w)
           mv == w.s.current_move[1]
       IN IF c.exc # "none" THEN c
          \* cur_move.mdict: the homing moves are dicts and have no mdict
          ELSE IF mv.kind = "dict" THEN Raise(c, "err")
          ELSE CompleteLoop(c, mv, 1)

caRequest_put(w, v) ==
  IF w.exc # "none" THEN w
  ELSE Log([w EXCEPT !.chan.colRequest = v], "caRequest", v, None)

load_home_sequence(w) ==
  IF w.exc # "none" THEN w
  ELSE LET c == caRequest_put([w EXCEPT !.s.homing = TRUE], "disable")
       IN [c EXCEPT !.s.motor_moves = @ \o <<HomeDict({"m3", "m4"}), HomeDict({"m1", "m2"})>>]

end_home_sequence(w) ==
  IF w.exc # "none" THEN w
  ELSE caRequest_put([w EXCEPT !.s.homing = FALSE], "enable")

\* Sequencer.stop() of the base class
super_stop(w) == IF w.exc # "none" THEN w ELSE To(w, "TERMINATE")

\* a request handler that serves home from every state
process_request_home_anywhere(w) ==
  IF w.exc # "none" THEN w
  ELSE LET request == w.chan.request
           r == [w EXCEPT !.chan.request = "", !.request = request]
       IN IF request = "home" THEN To(load_home_sequence(r), "MOVING") ELSE r

\* process_request: the request channel is read destructively (seqrequest)
process_request(w) ==
  IF w.exc # "none" THEN w
  ELSE LET request == w.chan.request
           r == [w EXCEPT !.chan.request = "", !.request = request]
           st == w.s.state
       IN CASE request = "shutdown" ->
                 IF st # "MOVING" THEN super_stop(r) ELSE super_stop(stop_motors(r))
            [] request = "enable" ->
                 IF st = "INPOS" THEN enable_all(r) ELSE r
            [] request = "disable" ->
                 IF st = "INPOS" THEN disable_all(r)
                 ELSE IF st = "MOVING" THEN disable_all(stop_motors(r))
                 ELSE r
            [] request = "clear_pos" ->
                 IF st = "INPOS" THEN [r EXCEPT !.s.configuration = ""] ELSE r
            [] request = "stop" ->
                 IF st = "MOVING" THEN To(stop_motors(r), "INPOS") ELSE r
            [] request = "reinit" ->
                 IF st # "MOVING" THEN To(r, "INIT") ELSE r
            [] request = "home" ->
                 IF st = "INPOS" THEN To(load_home_sequence(r), "MOVING") ELSE r
            [] OTHER -> r

\* a destination handler that loads a named configuration from every state
process_pos_request_any_state(w) ==
  IF w.exc # "none" THEN w
  ELSE LET request == w.chan.pos
           r == [w EXCEPT !.chan.pos = "", !.posreq = request]
       IN IF request \in ConfigNames THEN To(load_config(r, request), "MOVING") ELSE r

\* config_request: get, then set('') when the value read was set.  w.midpos
\* is what a client writes between the two ("" when no write lands there);
\* lost tells that the clearing write went over it
config_request(w) ==
  LET request == w.chan.pos
      landed == IF w.midpos # "" THEN w.midpos ELSE request
  IN [w EXCEPT !.chan.pos = IF request # "" THEN "" ELSE landed,
               !.posreq = request,
               !.lost = @ \/ (w.midpos # "" /\ request # "")]

\* process_pos_request: config_request reads the pos channel destructively
process_pos_request(w) ==
  IF w.exc # "none" THEN w
  ELSE LET r == config_request(w)
           request == r.posreq
       IN IF request = "" THEN r
          ELSE IF r.s.state = "INPOS" /\ request \in ConfigNames
            THEN To(load_config(r, request), "MOVING")
          ELSE r

\* the getter of add_property on the Pos channels: get, then set(RESET_VAL)
\* when the value read was set.  w.midaxis is what a client writes to one Pos
\* channel between the two (<<>> when no write lands there)
PosAfterRead(w) ==
  [m \in Motors |->
     IF w.chan.Pos[m] = None /\ w.midaxis # <<>> /\ w.midaxis[1] = m
       THEN Some(w.midaxis[2]) ELSE None]

\* get_channels: every channel of the type is read, and reset when it was set
get_moves(w) ==
  LET abs_move == [kind |-> "PCUMove", type |-> "absolute", mdict |-> w.chan.Pos, h |-> {}]
      rel_move == [kind |-> "PCUMove", type |-> "relative", mdict |-> w.chan.Offset, h |-> {}]
      g == [w EXCEPT !.chan.Pos = PosAfterRead(w),
                     !.lost = @ \/ (w.midaxis # <<>> /\ w.chan.Pos[w.midaxis[1]] # None)]
  IN IF MoveBool(abs_move)
       THEN [g EXCEPT !.move = abs_move]
       ELSE [g EXCEPT !.chan.Offset = NoAxes, !.move = rel_move]

process_move_request(w) ==
  IF w.exc # "none" THEN w
  ELSE LET g == get_moves(w)
           move == g.move
       IN IF ~MoveBool(move) THEN g
          ELSE IF g.s.state # "INPOS" THEN g
          ELSE LET c == check_connection(g)
                   cur_pos == current_pos(c)
                   dest_pos == PosAdd(cur_pos, move)
               IN IF c.exc # "none" THEN c
                  ELSE IF is_valid(dest_pos)
                    THEN IF ~move_in_hole(cur_pos, dest_pos)
                           \* motor_moves.append(...): no such name (NameError)
                           THEN Raise(c, "err")
                         ELSE To([c EXCEPT !.s.motor_moves = @ \o <<MoveXY(move), MoveZ(move)>>,
                                           !.queued = TRUE], "MOVING")
                  ELSE [c EXCEPT !.rejected = TRUE]

checkmeta(w) ==
  LET c == [w EXCEPT !.chan.stst = w.s.state]
  IN IF c.s.state # "INPOS" THEN [c EXCEPT !.s.configuration = ""]
     ELSE IF c.s.configuration = "" THEN [c EXCEPT !.s.configuration = "user_def"]
     ELSE c

\* check_positions publishes the readbacks; it runs outside the try
check_positions(w) == check_connection(w)

\* except PVDisconnectException: stop_motors(); to_FAULT()
SeqHandler(w) ==
  IF w.exc = "disc" THEN To(stop_motors([w EXCEPT !.exc = "none", !.caught = TRUE]), "FAULT")
  ELSE w

user_configs_valid(w) == \A c \in DOMAIN StoreUser(w.store) : is_valid(StoreUser(w.store)[c])

\* get_config: "return None" sits inside the loop, after the first configuration;
\* the configuration setter stores None as the empty string
get_config(w) ==
  LET config == config_order[1]
  IN IF \A m \in Motors : motor_in_position(current_pos(w), m, StoreAll(w.store)[config][m])
       THEN config ELSE ""

process_INIT(w) ==
  SeqHandler(
    IF ~user_configs_valid(w) THEN To(w, "FAULT")
    ELSE LET c == check_connection(w)
         IN IF c.exc # "none" THEN c
            ELSE To([c EXCEPT !.s.configuration = get_config(c)], "INPOS"))

process_INPOS(w) ==
  LET c == check_positions(checkmeta(w))
  IN IF c.exc # "none" THEN c
     ELSE SeqHandler(process_move_request(process_pos_request(process_request(c))))

\* the body of process_MOVING after the requests, with a completion branch
\* that goes back to INPOS and leaves configuration and destination alone
MovingStep_unlatched(w, starts) ==
  IF w.exc # "none" THEN w
  ELSE LET mc == move_complete(w)
           a == IF mc.exc # "none" THEN mc
                ELSE IF Len(mc.s.motor_moves) # 0 /\ mc.ret
                  THEN trigger_move([mc EXCEPT !.s.motor_moves = Tail(@), !.popped = TRUE],
                                    Head(mc.s.motor_moves), starts)
                ELSE IF Len(mc.s.motor_moves) = 0 /\ mc.ret
                  THEN To(IF mc.s.homing THEN end_home_sequence(mc) ELSE mc, "INPOS")
                ELSE mc
       IN IF a.exc # "none" THEN a
          ELSE IF a.s.move_timer.expired
            THEN To(stop_motors([a EXCEPT !.timedout = TRUE]), "FAULT")
          ELSE a

\* the body of process_MOVING after the requests
MovingStep(w, starts) ==
  IF w.exc # "none" THEN w
  ELSE LET mc == move_complete(w)
           a == IF mc.exc # "none" THEN mc
                ELSE IF Len(mc.s.motor_moves) # 0 /\ mc.ret
                  THEN trigger_move([mc EXCEPT !.s.motor_moves = Tail(@), !.popped = TRUE],
                                    Head(mc.s.motor_moves), starts)
                ELSE IF Len(mc.s.motor_moves) = 0 /\ mc.ret
                  THEN LET e == IF mc.s.homing THEN end_home_sequence(mc) ELSE mc
                       IN To([e EXCEPT !.s.configuration = e.s.destination,
                                       !.s.destination = ""], "INPOS")
                ELSE mc
       IN IF a.exc # "none" THEN a
          ELSE IF a.s.move_timer.expired
            THEN To(stop_motors([a EXCEPT !.timedout = TRUE]), "FAULT")
          ELSE a

process_MOVING(w, starts) ==
  LET c == check_positions(checkmeta(w))
  IN IF c.exc # "none" THEN c
     ELSE SeqHandler(
            MovingStep(process_move_request(process_pos_request(process_request(c))), starts))

process_FAULT(w) == process_pos_request(process_request(checkmeta(w)))

\* process_TERMINATE: pass
process_TERMINATE(w) == w

(***************************************************************************)
(* collisionIOC.py: collisionSequencer.  In these steps w.s is the         *)
(* guardian.                                                               *)
(***************************************************************************)
\* commanded_pos() reads every motor through the facade's get_commanded
commanded_pos(w) == w.mot.cmd

col_stop_motors(w) == All4(w, MotorStop)
reset_motors(w) == All4(w, LAMBDA u, m : go_put(reset_pos(u, m), m))
disable_motors(w) == All4(w, MotorDisable)
go_motors(w) == All4(w, go_put)

stop_and_reset(w) == go_motors(reset_motors(disable_motors(col_stop_motors(w))))

stop_and_disable(w) == go_motors(disable_motors(col_stop_motors(w)))

motors_enabled(w) == \E m \in Motors : isEnabled(w, m)

NoneAllowed == [m \in Motors |-> "none"]

\* operator.le / operator.ge of the allowed-direction map
OpHolds(op, a, b) == IF op = "le" THEN a <= b ELSE a >= b

load_restricted_moves(w) ==
  LET c == check_connection(w)
      cur_pos == current_pos(c)
      fiber_in_hole == in_hole_rad(cur_pos, "fiber", KMIRR_RADIUS)
      fiber_allowed == in_hole(cur_pos, "fiber")
      mask_in_hole == in_hole_rad(cur_pos, "mask", KMIRR_RADIUS)
      mask_allowed == in_hole(cur_pos, "mask")
      fiber_retract == ~fiber_in_hole /\ fiber_extended(cur_pos)
      fiber_center_move == ~fiber_retract /\ fiber_in_hole /\ ~fiber_allowed
      mask_retract == ~mask_in_hole /\ mask_extended(cur_pos)
      mask_center_move == ~mask_retract /\ mask_in_hole /\ ~mask_allowed
      move_to_center == fiber_center_move \/ mask_center_move
      \* the mask branch runs second and overwrites instr_center
      instr_center == IF mask_center_move THEN Pos(mask_center.m1, mask_center.m2, 0, 0)
                      ELSE Pos(fiber_center.m1, fiber_center.m2, 0, 0)
      manual == fiber_extended(cur_pos) /\ mask_extended(cur_pos) /\ move_to_center
      pos_diff == PosSub(instr_center, cur_pos)
      allowed ==
        [m \in Motors |->
           CASE m = "m4" -> IF fiber_retract THEN "le" ELSE "none"
             [] m = "m3" -> IF mask_retract THEN "le" ELSE "none"
             [] OTHER -> IF manual \/ ~move_to_center THEN "none"
                         ELSE IF pos_diff[m] > 0 THEN "ge"
                         ELSE IF pos_diff[m] < 0 THEN "le"
                         ELSE "none"]
  IN IF c.exc # "none" THEN [c EXCEPT !.s.allowed_motors = NoneAllowed]
     ELSE [To(c, IF manual THEN "STOPPED" ELSE c.s.state)
             EXCEPT !.s.allowed_motors = allowed,
                    !.s.same_message = (allowed = w.s.allowed_motors),
                    !.manual = manual]

check_all_pos(w) ==
  LET c == check_connection(w)
  IN IF c.exc # "none" THEN c
     ELSE IF ~is_valid(current_pos(c)) \/ ~is_valid(commanded_pos(c))
       THEN [stop_and_reset([c EXCEPT !.sampled = TRUE, !.badpos = TRUE]) EXCEPT !.ret = FALSE]
     ELSE [c EXCEPT !.sampled = TRUE, !.ret = TRUE]

check_future_pos(w) ==
  LET c == check_connection(w)
  IN IF c.exc # "none" THEN c
     ELSE IF \E m \in Motors :
               /\ c.s.allowed_motors[m] # "none"
               /\ ~OpHolds(c.s.allowed_motors[m], commanded_pos(c)[m], current_pos(c)[m])
       THEN To(stop_and_reset([c EXCEPT !.badmove = TRUE]), "STOPPED")
     ELSE c

\* collisionSequencer.stop()
col_stop(w) == super_stop(stop_and_disable(w))

\* a guard that lets every reinit through
reinit_always(st, valid_pos) == TRUE

\* process_request, request=='reinit': the states and positions that reach to_INIT
reinit_allowed(st, valid_pos) == st \in {"MONITORING", "FAULT"} \/ valid_pos

\* process_request of the guardian: the request channel is collisions:request
col_process_request(w) ==
  IF w.exc # "none" THEN w
  ELSE LET read == w.chan.colRequest
           c == check_connection([w EXCEPT !.chan.colRequest = "", !.request = @ \o <<read>>])
           valid_pos == is_valid(current_pos(c))
           st == w.s.state
           request == IF read = "enable" /\ st # "MONITORING" THEN "reinit" ELSE read
       IN IF c.exc # "none" THEN c
          ELSE CASE request = "reinit" ->
                      IF reinit_allowed(st, valid_pos) THEN To(c, "INIT") ELSE c
                 [] request = "allow_moves" ->
                      IF st = "STOPPED" THEN To(reset_motors(c), "RESTRICTED") ELSE c
                 [] request = "disable" ->
                      \* to_DISABLE(): the state is DISABLED, there is no such trigger
                      IF st = "FAULT" THEN c ELSE Raise(c, "err")
                 [] request = "shutdown" -> col_stop(c)
                 [] OTHER -> c

col_checkmeta(w) == [w EXCEPT !.chan.colStst = w.s.state]

\* except PVDisconnectException: stop_and_disable(); to_FAULT().  connH: whether
\* the endpoints answer again by the time the handler runs
ColHandler(w, connH) ==
  IF w.exc = "disc"
    THEN To(stop_and_disable([w EXCEPT !.exc = "none", !.caught = TRUE, !.conn = connH]), "FAULT")
  ELSE w

\* a request that lands on collisions:request while the tick runs
MidTick(w, req2) ==
  IF w.exc # "none" \/ req2 = "" THEN w ELSE [w EXCEPT !.chan.colRequest = req2]

ResetLatch(w, st) ==
  IF w.exc = "none" /\ w.s.state # st THEN [w EXCEPT !.s.same_message = FALSE] ELSE w

\* an INIT handler that goes to MONITORING without the position check
col_process_INIT_unchecked(w, connH) ==
  ColHandler(To(reset_motors(col_checkmeta(w)), "MONITORING"), connH)

col_process_INIT(w, connH) ==
  LET r == check_all_pos(reset_motors(col_checkmeta(w)))
  IN ColHandler(IF r.exc # "none" THEN r
                ELSE To(r, IF r.ret THEN "MONITORING" ELSE "STOPPED"), connH)

process_MONITORING(w, req2, connH) ==
  LET p == col_process_request(col_checkmeta(w))
      r == check_all_pos(p)
      t == IF r.exc # "none" THEN r ELSE IF r.ret THEN r ELSE To(r, "STOPPED")
  IN IF p.exc # "none" THEN p
     ELSE ColHandler(col_process_request(MidTick(t, req2)), connH)

process_STOPPED(w, connH) ==
  LET m == col_checkmeta(w)
      r == IF motors_enabled(m) THEN stop_and_reset([m EXCEPT !.reenabled = TRUE]) ELSE m
      c == check_connection(r)
      l == IF c.exc # "none" THEN c ELSE [c EXCEPT !.s.same_message = TRUE]
  IN ColHandler(ResetLatch(col_process_request(l), "STOPPED"), connH)

process_RESTRICTED(w, req2, connH) ==
  LET p == col_process_request(col_checkmeta(w))
      l == load_restricted_moves(p)
      d == All4(l, LAMBDA u, m : IF l.s.allowed_motors[m] = "none" THEN MotorDisable(u, m) ELSE u)
      f == check_connection(check_future_pos(d))
      g == IF f.exc # "none" THEN f ELSE [f EXCEPT !.s.same_message = TRUE]
  IN IF p.exc # "none" THEN p
     ELSE ColHandler(ResetLatch(col_process_request(MidTick(g, req2)), "RESTRICTED"), connH)

col_process_DISABLED(w) == col_process_request(col_checkmeta(w))

col_process_FAULT(w) ==
  ResetLatch(col_process_request([col_checkmeta(w) EXCEPT !.s.same_message = TRUE]), "FAULT")

(***************************************************************************)
(* Bounds of the model and the inputs the environment draws from.          *)
(***************************************************************************)
\* client writes to the sequencer's channels, and to a motor's enable channel
\* from outside the sequencer, in one behaviour
MaxWrites == 2
\* client writes to the guardian's request channel and to the motors in one behaviour
MaxColWrites == 2
\* requests that land on the guardian's request channel in the middle of a tick
MaxMidTick == 1
\* client writes in one behaviour when the sequencer and the guardian both run
MaxBoth == 1
\* changes of the motor endpoints' connectivity in one behaviour
MaxFlips == 1

StartPositions ==
  {Pos(0, 0, 0, 0), Pos(100, 50, 0, 5), Pos(100, 69, 0, 5), Pos(160, 50, 0, 5),
   Pos(160, 50, 5, 5)}

SeqRequests == {"shutdown", "enable", "disable", "clear_pos", "stop", "reinit", "home"}
PosRequests == ConfigNames \cup {"nowhere"}
ColRequests == {"enable", "reinit", "allow_moves", "disable", "shutdown"}
\* values a client writes to a per-axis Pos channel or to a motor's posval
AxisWrites == {<<"m1", 119>>, <<"m1", 200>>, <<"m4", 0>>, <<"m4", 10>>}
\* the axes that start moving when told to home
HomingOutcomes == {Motors, {"m3"}}

SeqWorld ==
  [s |-> seq, mot |-> mot, chan |-> chan, conn |-> env.conn, lib |-> env.lib,
   store |-> env.store,
   log |-> <<>>, exc |-> "none", ret |-> TRUE, request |-> "", posreq |-> "",
   move |-> home_Z, queued |-> FALSE, rejected |-> FALSE, caught |-> FALSE,
   popped |-> FALSE, timedout |-> FALSE, loaded |-> FALSE, trig |-> None,
   midpos |-> "", midaxis |-> <<>>, lost |-> FALSE]

ColWorld ==
  [s |-> col, mot |-> mot, chan |-> chan, conn |-> env.conn, lib |-> env.lib,
   log |-> <<>>, exc |-> "none", ret |-> TRUE, request |-> <<>>, caught |-> FALSE,
   manual |-> FALSE, sampled |-> FALSE, badpos |-> FALSE, badmove |-> FALSE,
   reenabled |-> FALSE]

InitAt(stores, colstate, starts, centers) ==
  /\ \E p \in starts :
       mot = [pos |-> p, cmd |-> p, en |-> [m \in Motors |-> TRUE],
              go |-> [m \in Motors |-> FALSE], hom |-> [m \in Motors |-> FALSE]]
  /\ chan = [request |-> "", pos |-> "", Pos |-> NoAxes, Offset |-> NoAxes, stst |-> "",
             colRequest |-> "", colStst |-> ""]
  /\ seq = [state |-> "INIT", destination |-> "", configuration |-> "", motor_moves |-> <<>>,
            homing |-> FALSE, current_move |-> None,
            move_timer |-> [secs |-> 0, expired |-> FALSE]]
  /\ col = [state |-> colstate, allowed_motors |-> NoneAllowed, same_message |-> FALSE]
  /\ \E l \in {"ignored", "raises"}, st \in stores, mc \in centers :
       env = [conn |-> TRUE, lib |-> l, store |-> st, mask_center |-> mc,
              writes |-> 0, cwrites |-> 0, mid |-> 0, flips |-> 0]
  /\ sLast = [from |-> "", pre |-> seq, premot |-> mot, prechan |-> chan, request |-> "", posreq |-> "", log |-> <<>>,
              exc |-> "none", caught |-> FALSE, queued |-> FALSE, rejected |-> FALSE,
              popped |-> FALSE, timedout |-> FALSE, loaded |-> FALSE, trig |-> None, colStst |-> "",
              midpos |-> "", midaxis |-> <<>>, lost |-> FALSE,
              post |-> seq, postmot |-> mot, postchan |-> chan]
  /\ gLast = [from |-> "", pre |-> col, premot |-> mot, request |-> <<>>, log |-> <<>>,
              exc |-> "none", caught |-> FALSE, manual |-> FALSE, sampled |-> FALSE,
              badpos |-> FALSE, badmove |-> FALSE, reenabled |-> FALSE, req2 |-> "",
              post |-> col, postmot |-> mot]

\* the deployed configuration files are valid
Init == InitAt({"ok"}, "INIT", StartPositions, {[m1 |-> 200, m2 |-> 50]})
\* the deployed configuration files are any of the stores
InitCfg == InitAt(StoreNames, "INIT", StartPositions, {[m1 |-> 200, m2 |-> 50]})
\* the guardian in DISABLED, the state process_DISABLED is written for
InitDis == InitAt({"ok"}, "DISABLED", StartPositions, {[m1 |-> 200, m2 |-> 50]})
\* the guardian over every motor file, and also from a position with the fiber
\* extended inside the aperture and outside the fiber safe circle
GeoStartPositions == StartPositions \cup {Pos(130, 50, 0, 5), Pos(130, 60, 0, 5)}
InitGeo == InitAt({"ok"}, "INIT", GeoStartPositions, MaskCenters)
\* the guardian started with an axis beyond its motor limits: m1 past its upper
\* limit with both stages retracted, and the fiber stage past its upper limit
\* at the fiber centre
LimitStartPositions == {Pos(310, 50, 0, 0), Pos(100, 50, 0, 25), Pos(160, 50, 0, 5)}
InitLimit == InitAt({"ok"}, "INIT", LimitStartPositions, {[m1 |-> 200, m2 |-> 50]})

(***************************************************************************)
(* The ticks.                                                              *)
(***************************************************************************)
\* what the tick w leaves in sLast
SeqLast(w) ==
  [from |-> seq.state, pre |-> seq, premot |-> mot, prechan |-> chan,
   request |-> w.request,
   posreq |-> w.posreq, log |-> w.log, exc |-> w.exc, caught |-> w.caught,
   queued |-> w.queued, rejected |-> w.rejected, popped |-> w.popped,
   timedout |-> w.timedout, loaded |-> w.loaded, trig |-> w.trig, colStst |-> chan.colStst,
   midpos |-> w.midpos, midaxis |-> w.midaxis, lost |-> w.lost,
   post |-> w.s, postmot |-> w.mot, postchan |-> w.chan]

SeqApplyEnv(w, e) ==
  /\ seq' = w.s
  /\ mot' = w.mot
  /\ chan' = w.chan
  /\ sLast' = SeqLast(w)
  /\ env' = e
  /\ UNCHANGED <<col, gLast>>

SeqApply(w) == SeqApplyEnv(w, env)

Seq_INIT == seq.state = "INIT" /\ SeqApply(process_INIT(SeqWorld))
Seq_INPOS == seq.state = "INPOS" /\ SeqApply(process_INPOS(SeqWorld))
Seq_MOVING ==
  /\ seq.state = "MOVING"
  /\ \E starts \in HomingOutcomes : SeqApply(process_MOVING(SeqWorld, starts))
Seq_FAULT == seq.state = "FAULT" /\ SeqApply(process_FAULT(SeqWorld))
Seq_TERMINATE == seq.state = "TERMINATE" /\ SeqApply(process_TERMINATE(SeqWorld))

\* the same ticks with a client write landing inside a destructive read: on
\* the pos channel, or on one per-axis Pos channel
MidReadWrites ==
  {[midpos |-> n, midaxis |-> <<>>] : n \in PosRequests}
    \cup {[midpos |-> "", midaxis |-> a] : a \in AxisWrites}
MidReadWorld(mw) == [SeqWorld EXCEPT !.midpos = mw.midpos, !.midaxis = mw.midaxis]
\* a write inside a read is one of the client's writes
MidReadAllowed == env.mid < MaxMidTick /\ env.writes < MaxWrites
MidReadEnv == [env EXCEPT !.mid = @ + 1, !.writes = @ + 1]

Seq_INPOS_MidRead ==
  /\ seq.state = "INPOS" /\ MidReadAllowed
  /\ \E mw \in MidReadWrites : SeqApplyEnv(process_INPOS(MidReadWorld(mw)), MidReadEnv)
Seq_MOVING_MidRead ==
  /\ seq.state = "MOVING" /\ MidReadAllowed
  /\ \E mw \in MidReadWrites, starts \in HomingOutcomes :
       SeqApplyEnv(process_MOVING(MidReadWorld(mw), starts), MidReadEnv)
Seq_FAULT_MidRead ==
  /\ seq.state = "FAULT" /\ MidReadAllowed
  /\ \E mw \in MidReadWrites : SeqApplyEnv(process_FAULT(MidReadWorld(mw)), MidReadEnv)

ColApply(w, req2) ==
  /\ col' = w.s
  /\ mot' = w.mot
  /\ chan' = w.chan
  /\ env' = [env EXCEPT !.conn = w.conn, !.mid = IF req2 = "" THEN @ ELSE @ + 1]
  /\ gLast' = [from |-> col.state, pre |-> col, premot |-> mot, request |-> w.request,
               log |-> w.log, exc |-> w.exc, caught |-> w.caught, manual |-> w.manual,
               sampled |-> w.sampled, badpos |-> w.badpos, badmove |-> w.badmove,
               reenabled |-> w.reenabled, req2 |-> req2, post |-> w.s, postmot |-> w.mot]
  /\ UNCHANGED <<seq, sLast>>

\* connH matters only when the tick starts disconnected
HandlerConn == IF env.conn THEN {TRUE} ELSE {TRUE, FALSE}
MidTickReqs == IF env.mid < MaxMidTick THEN {""} \cup ColRequests ELSE {""}

Col_INIT ==
  /\ col.state = "INIT"
  /\ \E connH \in HandlerConn : ColApply(col_process_INIT(ColWorld, connH), "")
Col_MONITORING ==
  /\ col.state = "MONITORING"
  /\ \E connH \in HandlerConn, req2 \in MidTickReqs :
       ColApply(process_MONITORING(ColWorld, req2, connH), req2)
Col_STOPPED ==
  /\ col.state = "STOPPED"
  /\ \E connH \in HandlerConn : ColApply(process_STOPPED(ColWorld, connH), "")
Col_RESTRICTED ==
  /\ col.state = "RESTRICTED"
  /\ \E connH \in HandlerConn, req2 \in MidTickReqs :
       ColApply(process_RESTRICTED(ColWorld, req2, connH), req2)
Col_FAULT == col.state = "FAULT" /\ ColApply(col_process_FAULT(ColWorld), "")
Col_DISABLED == col.state = "DISABLED" /\ ColApply(col_process_DISABLED(ColWorld), "")

(***************************************************************************)
(* The environment: the motors, the timer, the endpoints, the clients.     *)
(***************************************************************************)
MotorArrive ==
  /\ \E m \in Motors :
       /\ mot.en[m] /\ mot.go[m] /\ ~mot.hom[m] /\ mot.pos[m] # mot.cmd[m]
       /\ mot' = [mot EXCEPT !.pos[m] = mot.cmd[m]]
  /\ UNCHANGED <<chan, seq, col, env, sLast, gLast>>

HomingDone ==
  /\ \E m \in Motors :
       /\ mot.hom[m]
       /\ mot' = [mot EXCEPT !.hom[m] = FALSE, !.pos[m] = 0, !.cmd[m] = 0]
  /\ UNCHANGED <<chan, seq, col, env, sLast, gLast>>

TimerExpire ==
  /\ seq.move_timer.secs > 0 /\ ~seq.move_timer.expired
  /\ seq' = [seq EXCEPT !.move_timer.expired = TRUE]
  /\ UNCHANGED <<mot, chan, col, env, sLast, gLast>>

ConnFlip ==
  /\ env.flips < MaxFlips
  /\ env' = [env EXCEPT !.conn = ~@, !.flips = @ + 1]
  /\ UNCHANGED <<mot, chan, seq, col, sLast, gLast>>

Written == env' = [env EXCEPT !.writes = @ + 1]
ColWritten == env' = [env EXCEPT !.cwrites = @ + 1]

ClientRequest ==
  /\ env.writes < MaxWrites
  /\ \E r \in SeqRequests : chan' = [chan EXCEPT !.request = r]
  /\ Written /\ UNCHANGED <<mot, seq, col, sLast, gLast>>

ClientPos ==
  /\ env.writes < MaxWrites
  /\ \E n \in PosRequests : chan' = [chan EXCEPT !.pos = n]
  /\ Written /\ UNCHANGED <<mot, seq, col, sLast, gLast>>

ClientAxisPos ==
  /\ env.writes < MaxWrites
  /\ \E a \in AxisWrites : chan' = [chan EXCEPT !.Pos[a[1]] = Some(a[2])]
  /\ Written /\ UNCHANGED <<mot, seq, col, sLast, gLast>>

ClientAxisOffset ==
  /\ env.writes < MaxWrites
  /\ \E a \in AxisWrites : chan' = [chan EXCEPT !.Offset[a[1]] = Some(a[2])]
  /\ Written /\ UNCHANGED <<mot, seq, col, sLast, gLast>>

ClientColRequest ==
  /\ env.cwrites < MaxColWrites
  /\ \E r \in ColRequests : chan' = [chan EXCEPT !.colRequest = r]
  /\ ColWritten /\ UNCHANGED <<mot, seq, col, sLast, gLast>>

\* a client commands a motor directly: posval, then go
ClientMotorCmd ==
  /\ env.cwrites < MaxColWrites
  /\ \E a \in AxisWrites : mot' = [mot EXCEPT !.cmd[a[1]] = a[2], !.go[a[1]] = TRUE]
  /\ ColWritten /\ UNCHANGED <<chan, seq, col, sLast, gLast>>

\* a client enables a motor directly
ClientMotorEnable ==
  /\ env.cwrites < MaxColWrites
  /\ \E m \in Motors : ~mot.en[m] /\ mot' = [mot EXCEPT !.en[m] = TRUE]
  /\ ColWritten /\ UNCHANGED <<chan, seq, col, sLast, gLast>>

\* a client, or the guardian, disables one motor through its enable channel
ClientMotorDisable ==
  /\ env.writes < MaxWrites
  /\ \E m \in Motors : mot.en[m] /\ mot' = [mot EXCEPT !.en[m] = FALSE]
  /\ Written /\ UNCHANGED <<chan, seq, col, sLast, gLast>>

SeqNext ==
  \/ Seq_INIT \/ Seq_INPOS \/ Seq_MOVING \/ Seq_FAULT \/ Seq_TERMINATE
  \/ MotorArrive \/ HomingDone \/ TimerExpire \/ ConnFlip
  \/ ClientRequest \/ ClientPos \/ ClientAxisPos \/ ClientAxisOffset \/ ClientMotorDisable

ColNext ==
  \/ Col_INIT \/ Col_MONITORING \/ Col_STOPPED \/ Col_RESTRICTED \/ Col_FAULT
  \/ MotorArrive \/ ConnFlip
  \/ ClientColRequest \/ ClientMotorCmd \/ ClientMotorEnable

\* with both tick loops running the clients share one budget of writes
Budget == env.writes + env.cwrites + env.mid < MaxBoth

Both_ClientRequest == Budget /\ ClientRequest
Both_ClientPos == Budget /\ ClientPos
Both_ClientColRequest == Budget /\ ClientColRequest

Next ==
  \/ Seq_INIT \/ Seq_INPOS \/ Seq_MOVING \/ Seq_FAULT \/ Seq_TERMINATE
  \/ Col_INIT \/ Col_MONITORING \/ Col_STOPPED \/ Col_RESTRICTED \/ Col_FAULT
  \/ MotorArrive \/ HomingDone \/ TimerExpire \/ ConnFlip
  \/ Both_ClientRequest \/ Both_ClientPos \/ Both_ClientColRequest

\* the sequencer alone, the guardian alone, and both
SpecSeq == Init /\ [][SeqNext]_vars
SpecCol == Init /\ [][ColNext]_vars
Spec == Init /\ [][Next]_vars
DisNext ==
  \/ Col_DISABLED
  \/ Col_INIT \/ Col_MONITORING \/ Col_STOPPED \/ Col_RESTRICTED \/ Col_FAULT
  \/ MotorArrive \/ ConnFlip
  \/ ClientColRequest \/ ClientMotorCmd \/ ClientMotorEnable

\* the guardian alone, started in DISABLED
SpecDis == InitDis /\ [][DisNext]_vars
\* the sequencer alone, over every store of configuration files
SpecCfg == InitCfg /\ [][SeqNext]_vars
\* the guardian alone, over every motor file
SpecGeo == InitGeo /\ [][ColNext]_vars

SpecLimit == InitLimit /\ [][ColNext]_vars

MidReadNext ==
  \/ Seq_INIT \/ Seq_INPOS \/ Seq_MOVING \/ Seq_FAULT \/ Seq_TERMINATE
  \/ Seq_INPOS_MidRead \/ Seq_MOVING_MidRead \/ Seq_FAULT_MidRead
  \/ MotorArrive \/ HomingDone \/ TimerExpire \/ ConnFlip
  \/ ClientRequest \/ ClientPos \/ ClientAxisPos \/ ClientAxisOffset \/ ClientMotorDisable

\* the sequencer alone, with clients that also write while a tick reads
SpecMidRead == Init /\ [][MidReadNext]_vars

\* the sequencer's tick loop: whatever the state, its handler is called again
SeqTick == Seq_INIT \/ Seq_INPOS \/ Seq_MOVING \/ Seq_FAULT \/ Seq_TERMINATE

\* what a tick from the present state can be
SeqTickResults ==
  CASE seq.state = "INIT" -> {process_INIT(SeqWorld)}
    [] seq.state = "INPOS" -> {process_INPOS(SeqWorld)}
    [] seq.state = "MOVING" -> {process_MOVING(SeqWorld, starts) : starts \in HomingOutcomes}
    [] seq.state = "FAULT" -> {process_FAULT(SeqWorld)}
    [] seq.state = "TERMINATE" -> {process_TERMINATE(SeqWorld)}

\* a tick from the present state changes nothing: ~ENABLED <<SeqTick>>_vars
TickIdle ==
  \A w \in SeqTickResults :
    w.s = seq /\ w.mot = mot /\ w.chan = chan /\ SeqLast(w) = sLast

\* the sequencer alone, with a tick loop that keeps running (the weak fairness
\* of SeqTick, with its ENABLED written as TickIdle) and a move timer that,
\* once started, runs out
SpecSeqFair ==
  /\ Init /\ [][SeqNext]_vars
  /\ ([]<>TickIdle \/ []<><<SeqTick>>_vars)
  /\ WF_vars(TimerExpire)

(***************************************************************************)
(* The claims.  sLast and gLast describe the last tick of the sequencer    *)
(* and of the guardian: the state it started in (from, pre, premot), what  *)
(* it read and did, and the state it left (post, postmot).                 *)
(***************************************************************************)
AllDisabled(m) == \A a \in Motors : ~m.en[a]

\* C1: guardian safety.  A MONITORING tick that samples an invalid current or
\* commanded position leaves every motor disabled and the guardian in STOPPED.
C1_GuardianSafety ==
  (gLast.from = "MONITORING" /\ gLast.badpos)
    => (gLast.post.state = "STOPPED" /\ AllDisabled(gLast.postmot))

\* the queued moves applied one at a time, in queue order, to the position p
RECURSIVE PrefixValid(_, _)
PrefixValid(p, q) ==
  IF q = <<>> THEN TRUE
  ELSE LET n == PosAdd(p, Head(q)) IN is_valid(n) /\ PrefixValid(n, Tail(q))

\* the last sequencer tick accepted a goal in INPOS from a valid position
Planned ==
  /\ sLast.from = "INPOS" /\ sLast.exc = "none" /\ sLast.post.state = "MOVING"
  /\ sLast.queued \/ sLast.loaded
  /\ is_valid(sLast.premot.pos)

\* C2: no intermediate collision.  For every goal the planner accepts from a
\* valid start position, the queued moves applied one at a time to the start
\* position give a valid position after every move.
C2_NoIntermediateCollision ==
  Planned => PrefixValid(sLast.premot.pos, sLast.post.motor_moves)

\* the last sequencer tick built a queue for a named configuration
Loaded == sLast.from = "INPOS" /\ sLast.loaded

\* both valid and both inside the same safe circle, mask or fiber
InHoleCompatible(c, d) ==
  /\ is_valid(c) /\ is_valid(d)
  /\ \/ in_circle(c, mask_center, safe_radius.mask) /\ in_circle(d, mask_center, safe_radius.mask)
     \/ in_circle(c, fiber_center, safe_radius.fiber) /\ in_circle(d, fiber_center, safe_radius.fiber)

\* C3: hole-transit rule for GoTo.  The queue built by load_config from the
\* current position c to the configuration d begins with the retraction
\* {m3=0, m4=0} when c and d are not in-hole-compatible, and holds no
\* retraction when they are.
C3_HoleTransit ==
  Loaded =>
    LET c == sLast.premot.pos
        d == all_configs[sLast.posreq]
        q == sLast.post.motor_moves
    IN IF InHoleCompatible(c, d)
         THEN \A i \in 1..Len(q) : q[i] # home_Z
         ELSE Len(q) > 0 /\ q[1] = home_Z

C3_Witness ==
  /\ Loaded
  /\ InHoleCompatible(sLast.premot.pos, all_configs[sLast.posreq])
  /\ sLast.premot.pos # all_configs[sLast.posreq]
  /\ Len(sLast.post.motor_moves) = Len(valid_motors)

\* C4: restricted-mode monotonicity.  A RESTRICTED tick that finds the
\* commanded value of an allowed axis against its operator leaves the guardian
\* in STOPPED with the motors disabled; a tick that finds every allowed axis
\* within its operator does not go to STOPPED on that account.
C4_RestrictedMonotonic ==
  gLast.from = "RESTRICTED" =>
    /\ gLast.badmove => gLast.post.state = "STOPPED" /\ AllDisabled(gLast.postmot)
    /\ (gLast.exc = "none" /\ ~gLast.badmove /\ ~gLast.manual) => gLast.post.state # "STOPPED"

\* C5: in a RESTRICTED tick with the fiber extended and (m1, m2) outside the
\* disk of radius KMIRR_RADIUS around fiber_center, the allowed-direction map
\* computed in the tick maps m4 to <= and holds neither m1 nor m2.
C5_FiberRetractOnly ==
  (/\ gLast.from = "RESTRICTED" /\ gLast.exc = "none"
   /\ fiber_extended(gLast.premot.pos)
   /\ ~in_circle(gLast.premot.pos, fiber_center, KMIRR_RADIUS))
    => /\ gLast.post.allowed_motors["m4"] = "le"
       /\ gLast.post.allowed_motors["m1"] = "none"
       /\ gLast.post.allowed_motors["m2"] = "none"

\* the tick commanded a motor to a position or to home
Commanded(log) ==
  \E i \in 1..Len(log) : log[i][1] = "home" \/ (log[i][1] = "set_pos" /\ log[i][3] # None)

\* C6: in no tick that starts with collisions:stst reading FAULT does the
\* sequencer issue set_pos or home to a motor.
C6_RefusesMotionInGuardianFault ==
  sLast.colStst = "FAULT" => ~Commanded(sLast.log)

Homed(log, m) == \E i \in 1..Len(log) : log[i] = <<"home", m, None>>
StopIssued(log) == \A m \in Motors : \E i \in 1..Len(log) : log[i] = <<"stop", m, None>>
\* the tick ran to its end or raised something other than a disconnect
Connected(t) == t.exc # "disc" /\ ~t.caught

\* C7: homing protocol ordering.  The MOVING tick that finds the first homing
\* move {m3, m4} complete, with no request pending and the timer running,
\* issues home to m1 and to m2.
C7_HomingOrder ==
  (/\ sLast.from = "MOVING" /\ sLast.pre.homing
   /\ sLast.pre.current_move = Some(HomeDict({"m3", "m4"}))
   /\ \A m \in Motors : ~sLast.premot.hom[m]
   /\ sLast.request = "" /\ Connected(sLast) /\ ~sLast.pre.move_timer.expired)
    => Homed(sLast.log, "m1") /\ Homed(sLast.log, "m2")

\* the move m is not complete at the positions of mo
Incomplete(m, mo) ==
  IF m.kind = "dict" THEN \E a \in m.h : mo.hom[a]
  ELSE \E a \in Motors : m.mdict[a] # None /\ ~motor_in_position(mo.pos, a, m.mdict[a][1])

\* C8: move timeout.  A MOVING tick that finds the timer expired and the
\* current move (regular or homing) not complete issues stop to all motors,
\* clears the queue and the current move, and ends in FAULT.
C8_MoveTimeout ==
  (/\ sLast.from = "MOVING" /\ sLast.pre.move_timer.expired
   /\ sLast.pre.current_move # None
   /\ Incomplete(sLast.pre.current_move[1], sLast.premot)
   /\ sLast.request = "" /\ Connected(sLast))
    => /\ sLast.post.state = "FAULT" /\ StopIssued(sLast.log)
       /\ sLast.post.motor_moves = <<>> /\ sLast.post.current_move = None

\* C9: synchronous stop.  A MOVING tick that reads stop, with no destination
\* request pending and the timer not expired, ends in INPOS with the queue
\* empty, no current move, stop issued to every motor and no move triggered.
C9_SynchronousStop ==
  (/\ sLast.from = "MOVING" /\ sLast.request = "stop"
   /\ sLast.posreq = "" /\ ~sLast.pre.move_timer.expired /\ Connected(sLast))
    => /\ sLast.post.state = "INPOS" /\ StopIssued(sLast.log)
       /\ sLast.post.motor_moves = <<>> /\ sLast.post.current_move = None
       /\ sLast.trig = None

\* C10: guardian authority at trigger.  A tick that triggers a regular move
\* while a motor the move sets is not enabled stops all motors, clears the
\* queue and the current move, and ends in FAULT.
C10_DisabledAtTrigger ==
  (/\ sLast.trig # None /\ Connected(sLast)
   /\ sLast.trig[1].kind = "PCUMove" /\ ~sLast.pre.homing
   /\ \E m \in Motors : sLast.trig[1].mdict[m] # None /\ ~sLast.premot.en[m])
    => /\ sLast.post.state = "FAULT" /\ StopIssued(sLast.log)
       /\ sLast.post.motor_moves = <<>> /\ sLast.post.current_move = None

\* a motor-facade operation raised Disconnected in the tick
Disconnected(t) == t.exc = "disc" \/ t.caught

\* C11: sequencer connectivity handling.  An INIT, INPOS or MOVING tick in
\* which a motor-facade operation raises Disconnected (the position read of
\* check_positions included) issues stop to all motors and ends in FAULT.
C11_SeqDisconnect ==
  (sLast.from \in {"INIT", "INPOS", "MOVING"} /\ Disconnected(sLast))
    => (sLast.post.state = "FAULT" /\ StopIssued(sLast.log))

\* C12: guardian connectivity handling.  An INIT, MONITORING, STOPPED or
\* RESTRICTED tick in which a motor-facade operation raises Disconnected
\* (inside request processing, or with the endpoint still disconnected when
\* the handler runs) ends in FAULT.
C12_ColDisconnect ==
  (gLast.from \in {"INIT", "MONITORING", "STOPPED", "RESTRICTED"} /\ Disconnected(gLast))
    => gLast.post.state = "FAULT"

\* the tick sent a position to a motor
SetPosIssued(log) == \E i \in 1..Len(log) : log[i][1] = "set_pos"
\* the tick began with nothing written to any client channel of the sequencer
NoClientWrite(t) ==
  /\ t.prechan.Pos = NoAxes /\ t.prechan.Offset = NoAxes
  /\ t.prechan.request = "" /\ t.prechan.pos = ""

\* C13: offset sentinel idempotence.  An INPOS tick that begins with no value
\* on any Pos or Offset channel and no request (every tick after the one that
\* consumed a client's write) queues nothing, commands no motor and stays in
\* INPOS.
C13_OffsetIdempotent ==
  (sLast.from = "INPOS" /\ Connected(sLast) /\ ~Disconnected(sLast) /\ NoClientWrite(sLast))
    => /\ ~sLast.queued /\ ~SetPosIssued(sLast.log)
       /\ sLast.post.state = "INPOS" /\ sLast.post.motor_moves = sLast.pre.motor_moves

\* the move a client asked for through the per-axis channels: absolute when it
\* wrote Pos channels, relative when it wrote Offset channels
Requested(t) ==
  IF t.prechan.Pos # NoAxes
    THEN [kind |-> "PCUMove", type |-> "absolute", mdict |-> t.prechan.Pos, h |-> {}]
    ELSE [kind |-> "PCUMove", type |-> "relative", mdict |-> t.prechan.Offset, h |-> {}]

\* the tick began in INPOS with a per-axis request of one kind and nothing else
AxisRequest(t) ==
  /\ t.from = "INPOS" /\ ~Disconnected(t)
  /\ t.prechan.request = "" /\ t.prechan.pos = ""
  /\ (t.prechan.Pos = NoAxes) # (t.prechan.Offset = NoAxes)

\* C14: invalid offset rejected.  An INPOS tick that reads an offset or a
\* per-axis position whose destination (current position plus the move) is
\* not valid appends no move, commands no motor and stays in INPOS.
C14_InvalidOffsetRejected ==
  (AxisRequest(sLast) /\ ~is_valid(PosAdd(sLast.premot.pos, Requested(sLast))))
    => /\ ~sLast.queued /\ ~SetPosIssued(sLast.log)
       /\ sLast.post.state = "INPOS" /\ sLast.post.motor_moves = sLast.pre.motor_moves

\* C15: configuration validity invariant.  Whenever the sequencer is in INPOS
\* or MOVING, every named configuration a client can request (base, fiber and
\* mask families) is valid.
C15_ConfigsValid ==
  seq.state \in {"INPOS", "MOVING"}
    => \A c \in ConfigNames : is_valid(StoreAll(env.store)[c])

\* C16: STOPPED keeps motors disabled.  At the end of every tick that the
\* guardian begins and ends in STOPPED all motors are disabled.
C16_StoppedDisabled ==
  (gLast.from = "STOPPED" /\ gLast.post.state = "STOPPED")
    => AllDisabled(gLast.postmot)

\* the STOPPED tick read reinit, or enable, and no operation raised
ReinitInStopped(t) ==
  /\ t.from = "STOPPED" /\ t.exc = "none" /\ ~t.caught
  /\ t.request \in {<<"reinit">>, <<"enable">>}

\* C17: in STOPPED a reinit (or enable) request moves the guardian to INIT
\* when the current position is valid and leaves it in STOPPED when it is
\* not; and no tick takes the guardian into MONITORING at an invalid current
\* position.
C17_ReinitOnlyIfValid ==
  /\ ReinitInStopped(gLast) =>
        gLast.post.state = (IF is_valid(gLast.premot.pos) THEN "INIT" ELSE "STOPPED")
  /\ (gLast.from # "MONITORING" /\ gLast.post.state = "MONITORING")
        => is_valid(gLast.postmot.pos)

\* reinit was refused in STOPPED at an invalid position
C17_Witness ==
  /\ ReinitInStopped(gLast) /\ ~is_valid(gLast.premot.pos)
  /\ gLast.post.state = "STOPPED"

\* C18: a disable request read by the guardian in STOPPED, MONITORING or
\* RESTRICTED, in a tick where no operation raises Disconnected, leaves the
\* guardian in DISABLED at the end of that tick.
C18_DisableReachesDisabled ==
  (/\ gLast.from \in {"STOPPED", "MONITORING", "RESTRICTED"}
   /\ Len(gLast.request) > 0 /\ gLast.request[1] = "disable"
   /\ ~Disconnected(gLast))
    => gLast.post.state = "DISABLED"

CenterMoveNeeded(p) ==
  \/ in_hole_rad(p, "fiber", KMIRR_RADIUS) /\ ~in_hole(p, "fiber")
  \/ in_hole_rad(p, "mask", KMIRR_RADIUS) /\ ~in_hole(p, "mask")

\* the RESTRICTED tick ran to its end at a position with both payloads
\* extended and an XY move toward a centre needed
BothExtended(t) ==
  /\ t.from = "RESTRICTED" /\ t.exc = "none" /\ ~t.caught
  /\ mask_extended(t.premot.pos) /\ fiber_extended(t.premot.pos)
  /\ CenterMoveNeeded(t.premot.pos)

\* C20: a RESTRICTED tick with both payloads extended and an XY move toward
\* an aperture centre needed ends in STOPPED, and the allowed-direction map
\* of the tick holds neither m1 nor m2.
C20_BothExtendedStops ==
  BothExtended(gLast)
    => /\ gLast.post.state = "STOPPED"
       /\ gLast.post.allowed_motors["m1"] = "none"
       /\ gLast.post.allowed_motors["m2"] = "none"

\* the RESTRICTED tick computed its map at a position inside the fiber
\* aperture and outside the fiber safe circle, and did not find the
\* both-payloads-extended case
FiberCenterMove(t) ==
  /\ t.from = "RESTRICTED" /\ t.exc = "none" /\ ~t.caught /\ ~t.manual
  /\ in_circle(t.premot.pos, fiber_center, KMIRR_RADIUS)
  /\ ~in_circle(t.premot.pos, fiber_center, safe_radius.fiber)

\* C21: a RESTRICTED tick with the fiber inside the physical aperture and
\* outside the fiber safe circle, outside the both-payloads-extended case,
\* permits m1 and m2 only toward fiber_center (>= when the centre is above the
\* current value, <= when below, no entry when equal), wherever the mask
\* centre lies.
C21_TowardFiberCenter ==
  FiberCenterMove(gLast) =>
    \A m \in {"m1", "m2"} :
      gLast.post.allowed_motors[m] =
        (IF fiber_center[m] > gLast.premot.pos[m] THEN "ge"
         ELSE IF fiber_center[m] < gLast.premot.pos[m] THEN "le"
         ELSE "none")

\* the INIT tick sampled the positions and no operation raised
InitSampled(t) == t.from = "INIT" /\ t.sampled /\ t.exc = "none" /\ ~t.caught

NoMotorCommand(log) ==
  \A i \in 1..Len(log) :
    log[i][1] \notin {"set_pos", "home", "stop", "enable", "disable", "reset_pos"}

\* C23: a sequencer FAULT tick that reads a request other than reinit and
\* shutdown (enable, disable, stop, clear_pos, home, none), with or without a
\* named destination on the pos channel, ends in FAULT with the queue and the
\* current move unchanged and no command sent to a motor.
C23_FaultRefuses ==
  (sLast.from = "FAULT" /\ sLast.request \notin {"reinit", "shutdown"})
    => /\ sLast.post.state = "FAULT"
       /\ sLast.post.motor_moves = sLast.pre.motor_moves
       /\ sLast.post.current_move = sLast.pre.current_move
       /\ NoMotorCommand(sLast.log)

\* a FAULT tick read home and a named destination and stayed in FAULT
C23_Witness ==
  /\ sLast.from = "FAULT" /\ sLast.request = "home" /\ sLast.posreq \in ConfigNames
  /\ sLast.post.state = "FAULT"

\* the tick read shutdown, and no operation raised Disconnected
ShutdownRead(t) ==
  /\ t.from \in {"INIT", "INPOS", "MOVING", "FAULT"}
  /\ t.request = "shutdown" /\ Connected(t)

\* C24: a sequencer tick that reads shutdown issues stop to all motors and
\* ends in TERMINATE; a tick that begins in TERMINATE leaves the state alone
\* and sends nothing to a motor.
C24_ShutdownTerminates ==
  /\ ShutdownRead(sLast) => (StopIssued(sLast.log) /\ sLast.post.state = "TERMINATE")
  /\ sLast.from = "TERMINATE" => (sLast.post.state = "TERMINATE" /\ NoMotorCommand(sLast.log))

\* the channels hold a request that implies a new motion: a destination on
\* pos, a value on a per-axis Pos or Offset channel, or home
MotionRequest(c) ==
  c.pos # "" \/ c.Pos # NoAxes \/ c.Offset # NoAxes \/ c.request = "home"

\* the channels c without the requests that imply a new motion
NoMotionRequest(c) ==
  [c EXCEPT !.pos = "", !.Pos = NoAxes, !.Offset = NoAxes,
            !.request = IF @ = "home" THEN "" ELSE @]

\* the MOVING tick began with a motion request and no stop (a stop is served
\* first and takes the sequencer to INPOS before the motion request is
\* looked at), and every endpoint answered
MotionRequestInMoving(t) ==
  /\ t.from = "MOVING" /\ MotionRequest(t.prechan) /\ t.prechan.request # "stop"
  /\ ~Disconnected(t)

\* the sequencer the MOVING tick t would have left without the motion request
MovingWithout(t, starts) ==
  process_MOVING([SeqWorld EXCEPT !.s = t.pre, !.mot = t.premot,
                                  !.chan = NoMotionRequest(t.prechan), !.conn = TRUE],
                 starts).s

\* the queue, the current move, the destination and the homing flag of a and b
SameMotion(a, b) ==
  /\ a.motor_moves = b.motor_moves /\ a.current_move = b.current_move
  /\ a.destination = b.destination /\ a.homing = b.homing

\* C25: a MOVING tick that reads a request implying a new motion leaves the
\* queue, the current move, the destination, the homing flag and the state
\* as the same tick leaves them without the request: in MOVING whenever the
\* tick without the request stays in MOVING.
C25_MovingRejects ==
  MotionRequestInMoving(sLast) =>
    \E starts \in HomingOutcomes :
      /\ SameMotion(sLast.post, MovingWithout(sLast, starts))
      /\ sLast.post.state = MovingWithout(sLast, starts).state

\* a named destination was refused while a move was in progress
C25_Witness ==
  /\ MotionRequestInMoving(sLast) /\ sLast.posreq \in ConfigNames
  /\ sLast.pre.current_move # None /\ sLast.post.current_move = sLast.pre.current_move
  /\ sLast.post.state = "MOVING"

\* C25 as stated: a MOVING tick that reads a request implying a new motion
\* leaves the queue, the current move, the destination and the homing flag as
\* without the request, and ends in MOVING.
C25_StaysMoving ==
  MotionRequestInMoving(sLast) =>
    /\ \E starts \in HomingOutcomes : SameMotion(sLast.post, MovingWithout(sLast, starts))
    /\ sLast.post.state = "MOVING"

\* C26: a queue built by load_config for a named configuration while both Z
\* axes are at zero (m3 = m4 = 0) holds no retraction: it is exactly the
\* per-axis absolute moves of the configuration.
C26_RetractionSkippedAtZeroZ ==
  (Loaded /\ sLast.premot.pos["m3"] = 0 /\ sLast.premot.pos["m4"] = 0)
    => sLast.post.motor_moves = ConfigMoves(all_configs[sLast.posreq])

\* a client write landed inside a destructive read of the tick
MidReadWrite(t) == t.midpos # "" \/ t.midaxis # <<>>

\* C27: destructive reads are atomic.  A value read from the pos channel or a
\* per-axis Pos channel is gone from the channel after the read, so no second
\* read returns it; and a client write that lands between the get and the
\* clearing write of a read is not gone over by the clearing write.
C27_DestructiveReadAtomic ==
  /\ (sLast.posreq # "" /\ ~MidReadWrite(sLast)) => sLast.postchan.pos = ""
  /\ (sLast.queued /\ ~MidReadWrite(sLast)) => sLast.postchan.Pos = NoAxes
  /\ ~sLast.lost

\* one absolute single-axis move per axis of the configuration c, in the
\* order in which the entry of c lists its axes
DeclaredMoves(store, c) ==
  [i \in 1..Len(StoreAxes(store)[c]) |->
     PCUMove("absolute", [m \in {StoreAxes(store)[c][i]} |-> StoreAll(store)[c][m]])]

\* the queue without the retraction at its head
AfterRetraction(q) == IF Len(q) > 0 /\ q[1] = home_Z THEN Tail(q) ELSE q

\* C28: the queue built by load_config for a named configuration holds, after
\* the optional retraction, exactly one absolute single-axis move per axis,
\* in the order in which the configuration's own entry lists its axes.
C28_DeclaredAxisOrder ==
  Loaded => AfterRetraction(sLast.post.motor_moves) = DeclaredMoves(env.store, sLast.posreq)

\* the queue of an accepted per-axis goal mv from the position p
OffsetQueue(p, mv) ==
  (IF InHoleCompatible(p, PosAdd(p, mv)) THEN <<>> ELSE <<home_Z>>)
    \o <<MoveXY(mv), MoveZ(mv)>>

\* C29: an INPOS tick that reads an offset (or a per-axis position) whose
\* destination is valid appends to the queue the retraction {m3=0, m4=0} when
\* current position and destination are not in-hole-compatible, then one move
\* with the XY components of the request, then one with its Z components, and
\* ends in MOVING.
C29_OffsetQueue ==
  (AxisRequest(sLast) /\ is_valid(PosAdd(sLast.premot.pos, Requested(sLast))))
    => /\ sLast.post.motor_moves
            = sLast.pre.motor_moves \o OffsetQueue(sLast.premot.pos, Requested(sLast))
       /\ sLast.post.state = "MOVING"

\* some axis is still travelling: it is homing, or it is enabled, has been
\* told to go and is not yet where it was commanded to
Travelling(mo) ==
  \E m \in Motors : mo.hom[m] \/ (mo.en[m] /\ mo.go[m] /\ mo.pos[m] # mo.cmd[m])

\* the tick popped a move off the queue it found and gave it to trigger_move
\* (a tick that reads stop drops the queue it found and stops the motors
\* before it triggers anything)
Triggered(t) == t.from = "MOVING" /\ t.popped /\ t.request # "stop"

\* C30: one move at a time, in FIFO order.  A MOVING tick triggers the move
\* at the head of the queue and no other (the queue it leaves is the tail of
\* the queue it found, or empty), and it pops and triggers a move only when
\* no move is in progress: there is no current move, or the current move is
\* complete on every axis it sets, and no axis is still travelling towards a
\* target an earlier move gave it.
C30_OneMoveFifo ==
  Triggered(sLast) =>
    /\ sLast.pre.motor_moves # <<>>
    /\ sLast.trig = Some(Head(sLast.pre.motor_moves))
    /\ sLast.post.motor_moves \in {Tail(sLast.pre.motor_moves), <<>>}
    /\ sLast.pre.current_move = None \/ ~Incomplete(sLast.pre.current_move[1], sLast.premot)
    /\ ~Travelling(sLast.premot)

\* the motors are at the named configuration d of the store, within tolerance
AtConfig(mo, store, d) ==
  \A m \in Motors : motor_in_position(mo.pos, m, StoreAll(store)[d][m])

\* a MOVING tick of a GoTo to a named configuration that reads no request,
\* whose endpoints answer and whose timer has not expired, and that finds no
\* current move, an empty queue and the motors at the destination
SequenceDone(t) ==
  /\ t.from = "MOVING" /\ t.pre.destination \in ConfigNames
  /\ t.pre.current_move = None /\ t.pre.motor_moves = <<>>
  /\ t.prechan.request = "" /\ Connected(t) /\ ~t.pre.move_timer.expired
  /\ AtConfig(t.premot, env.store, t.pre.destination)

\* the MOVING tick ended the sequence by a stop, a timeout or a fault
SequenceAborted(t) ==
  /\ t.from = "MOVING"
  /\ t.request = "stop" \/ t.timedout \/ t.post.state = "FAULT"

\* C31: completion latch.  The MOVING tick of a GoTo to d that finds no current
\* move, an empty queue and every move completed sets configuration to d,
\* clears destination and ends in INPOS; a MOVING tick that ends the sequence
\* by a stop, a timeout or a fault leaves no named configuration latched, and
\* none is latched while the sequencer is in FAULT.
C31_CompletionLatch ==
  /\ SequenceDone(sLast) =>
       /\ sLast.post.configuration = sLast.pre.destination
       /\ sLast.post.destination = ""
       /\ sLast.post.state = "INPOS"
  /\ SequenceAborted(sLast) => sLast.post.configuration \notin ConfigNames
  /\ seq.state = "FAULT" => seq.configuration \notin ConfigNames

\* a GoTo that took the motors away from where they started has been latched
C31_Witness ==
  /\ SequenceDone(sLast) /\ sLast.post.configuration = sLast.pre.destination
  /\ sLast.post.state = "INPOS"
  /\ sLast.premot.pos \notin StartPositions

\* C32: every MOVING episode terminates.  With the tick loop running and the
\* move timer running out, a sequencer in MOVING is eventually in INPOS, FAULT
\* or TERMINATE.
C32_MovingTerminates ==
  (seq.state = "MOVING") ~> (seq.state \in {"INPOS", "FAULT", "TERMINATE"})

\* the guardian's tick ended in a state other than the one it began in
StateChanged(t) == t.from # "" /\ t.post.state # t.from

\* C33: the same_message latch is cleared on every state change.  A guardian
\* tick that ends in a state different from the one it began in, the
\* disconnect handler's way to FAULT included, leaves same_message false, so
\* the first tick in the new state finds it false.
C33_LatchCleared ==
  StateChanged(gLast) => ~gLast.post.same_message

\* the axes to which the log holds a position command
SetPosAxes(log) == {log[i][2] : i \in {j \in 1..Len(log) : log[j][1] = "set_pos"}}

\* the axes the move mv sets
AxesOf(mv) == {m \in Motors : mv.mdict[m] # None}

\* the tick triggered a regular move with every endpoint answering and every
\* motor enabled
RegularTrigger(t) ==
  /\ t.from = "MOVING" /\ t.trig # None /\ t.trig[1].kind # "dict"
  /\ ~t.post.homing /\ Connected(t)
  /\ \A m \in Motors : t.premot.en[m]

\* C34: triggering a move commands only the axes the move sets.  The position
\* commands of a tick that triggers a regular move go to exactly the axes
\* whose component is set in that move; an axis the move leaves unset
\* receives none.
C34_OnlySetAxes ==
  RegularTrigger(sLast) => SetPosAxes(sLast.log) = AxesOf(sLast.trig[1])

\* the axes to which the log holds a position command with a value
ValueCommands(log) ==
  {log[i][2] : i \in {j \in 1..Len(log) : log[j][1] = "set_pos" /\ log[j][3] # None}}

\* the tick triggered a regular move whose destination, the position at the
\* trigger plus the move, is not valid
InvalidTrigger(t) ==
  /\ t.from = "MOVING" /\ t.trig # None /\ t.trig[1].kind # "dict"
  /\ ~t.post.homing /\ t.request # "stop" /\ Connected(t)
  /\ ~is_valid(PosAdd(t.premot.pos, t.trig[1]))

\* C35: no position command for a move with an invalid destination.  A tick
\* whose trigger_move computes a destination that fails is_valid sends a
\* position to no motor.
C35_InvalidMoveNotCommanded ==
  InvalidTrigger(sLast) => ValueCommands(sLast.log) = {}

\* the place of the axis m in valid_motors
AxisIndex(m) == CHOOSE i \in 1..Len(valid_motors) : valid_motors[i] = m

\* the tick triggered a regular move and its loop over the axes came to the
\* disabled motor d: d is the first disabled axis, and no write of None to an
\* earlier axis raised
FoundDisabled(t, d) ==
  /\ t.from = "MOVING" /\ t.trig # None /\ t.trig[1].kind # "dict"
  /\ ~t.post.homing /\ t.request # "stop" /\ Connected(t)
  /\ ~t.premot.en[d]
  /\ \A m \in Motors : AxisIndex(m) < AxisIndex(d) =>
       /\ t.premot.en[m]
       /\ t.trig[1].mdict[m] # None \/ env.lib = "ignored"

\* C36: a disabled motor at the trigger.  When trigger_move finds a motor
\* disabled the tick ends in FAULT, with no position command to that motor or
\* to a later motor of the move, no current move recorded and no move timer
\* started.
C36_DisabledNotCommanded ==
  \A d \in Motors : FoundDisabled(sLast, d) =>
    /\ sLast.post.state = "FAULT"
    /\ \A m \in SetPosAxes(sLast.log) : AxisIndex(m) < AxisIndex(d)
    /\ sLast.post.current_move = None
    /\ sLast.post.move_timer = sLast.pre.move_timer

\* C37: nothing is left over in INPOS.  Whenever the sequencer is in INPOS the
\* move queue is empty and there is no current move, whatever requests and
\* failures came before.
C37_InposNothingPending ==
  seq.state = "INPOS" => (seq.motor_moves = <<>> /\ seq.current_move = None)

\* C38: the homing flag is true only while a homing sequence is in progress.
\* Whenever the sequencer is in INPOS, INIT or FAULT the homing flag is false
\* and the last word the sequencer wrote to the guardian's request channel is
\* not disable (with the sequencer alone nothing else writes that channel).
C38_HomingOnlyWhileHoming ==
  seq.state \in {"INPOS", "INIT", "FAULT"} =>
    (~seq.homing /\ chan.colRequest # "disable")

\* the step is a sequencer tick that issues a home command to some motor
HomeIssued == sLast' # sLast /\ \E m \in Motors : Homed(sLast'.log, m)

\* C39: no home command while the guardian monitors.  In every interleaving
\* of the two tick loops, a sequencer tick that issues a home command runs
\* with the guardian in DISABLED: the guardian has consumed the disable that
\* load_home_sequence wrote.
C39_HomeOnlyWhenDisabled ==
  [][HomeIssued => col.state = "DISABLED"]_vars

\* a RESTRICTED tick that read no request, ran to its end with the position
\* invalid and did not fall back to STOPPED
StillRestricted(t) ==
  /\ t.from = "RESTRICTED" /\ t.post.state = "RESTRICTED"
  /\ t.exc = "none" /\ ~t.caught
  /\ \A i \in 1..Len(t.request) : t.request[i] = ""
  /\ ~is_valid(t.postmot.pos)

\* C40: recovery is never deadlocked.  A RESTRICTED tick that finds the
\* position invalid and stays in RESTRICTED leaves an allowed-direction map
\* that lets at least one axis move, whatever makes the position invalid.
C40_RecoveryNotDeadlocked ==
  StillRestricted(gLast) => gLast.post.allowed_motors # NoneAllowed
====
